---- MODULE Spec2Model ----
(***************************************************************************)
(* Order-intake conversation of ikorka_bot: the aiogram router of          *)
(* app/order/routes.py dispatching to the OrderHandler methods, in both    *)
(* handler variants the repository carries:                                *)
(*   "db"  - src/handler.py: persists the order with insert_order, keeps   *)
(*           two phone values, no idle check;                              *)
(*   "app" - src/app/order/handler.py: per-message idle check, strict      *)
(*           quantity, no persistence.                                     *)
(* One action handles one inbound message from routing to the last reply,  *)
(* the router's error handler included.  Every storage or transport call   *)
(* may raise: a handling is given the set of call positions that raise.    *)
(***************************************************************************)
EXTENDS Integers, Sequences, FiniteSets, TLC

(***************************** bounds **************************************)
TicksPerSecond == 2      \* clock resolution: time.time() is fractional
MaxOrders == 2           \* rows one conversation may add to the orders table
MaxCall == 5             \* highest call position that may be made to raise
MaxFaults == 2           \* calls of one handling that may raise
MaxPeriods == 1          \* the clock stops after this many idle thresholds
MaxLen == 3              \* longest raw field value that is formatted

Users == {"u1", "u2"}
ActiveUsers == {"u1"}

(***************************** texts ***************************************)
\* A text is a sequence of characters; a button label or a command is one
\* symbol, " " is whitespace.
SP == " "
Digits == {"0", "5"}
DigitVal(ch) == IF ch = "5" THEN 5 ELSE 0
\* a character str.isdigit() takes for a digit and int() does not read:
\* superscript two
SuperscriptTwo == "[sup2]"

FAQ_BUTTON_TEXT == <<"[faq]">>
START_ORDER_BUTTON_TEXT == <<"[start_order]">>
NEW_ORDER_BUTTON_TEXT == <<"[new_order]">>
StartCommand == <<"/start">>
DASH == <<"[em-dash]">>
NoneVal == <<"None">>

RECURSIVE lstrip(_)
lstrip(s) == IF s # <<>> /\ Head(s) = SP THEN lstrip(Tail(s)) ELSE s

RECURSIVE rstrip(_)
rstrip(s) ==
    IF s # <<>> /\ s[Len(s)] = SP THEN rstrip(SubSeq(s, 1, Len(s) - 1)) ELSE s

\* str.strip()
strip(s) == rstrip(lstrip(s))

\* str.isdigit()
isdigit(s) == s # <<>> /\ \A i \in 1..Len(s) : s[i] \in Digits \cup {SuperscriptTwo}

\* the texts int() and float() read as a whole number: decimal digits only;
\* on any other text they raise ValueError
isdecimal(s) == s # <<>> /\ \A i \in 1..Len(s) : s[i] \in Digits

\* int(text) of a text of decimal digits
RECURSIVE int(_)
int(s) == IF s = <<>> THEN 0 ELSE 10 * int(SubSeq(s, 1, Len(s) - 1)) + DigitVal(s[Len(s)])

\* `x or DASH` on an optional string: None and "" are falsy
OrDash(x) == IF x = NoneVal \/ x = <<>> THEN DASH ELSE x

\* a blank value is only replaced when it is empty before trimming
StripOrDash_untrimmed(x) ==
    LET y == IF x = NoneVal THEN <<>> ELSE x
    IN  IF y = <<>> THEN DASH ELSE strip(y)

\* `(x or "").strip() or DASH`
StripOrDash(x) ==
    LET y == IF x = NoneVal THEN <<>> ELSE x
    IN  IF strip(y) = <<>> THEN DASH ELSE strip(y)

_normalize_phone(phone) ==
    IF phone = NoneVal \/ phone = <<>> THEN DASH
    ELSE IF strip(phone) = <<>> THEN DASH ELSE strip(phone)

(***************************** states **************************************)
NoState == "none"
OrderStates ==
    << "waiting_for_order_start", "waiting_for_contact", "waiting_for_quantity",
       "waiting_for_name", "waiting_for_address", "waiting_for_phone",
       "waiting_for_manual_phone", "waiting_for_extra_info" >>
StateSet == {OrderStates[i] : i \in 1..Len(OrderStates)} \cup {NoState}

(***************************** time ****************************************)
_IDLE_THRESHOLD_SECONDS == 9 * 60
ThresholdTicks == _IDLE_THRESHOLD_SECONDS * TicksPerSecond
MaxTime == MaxPeriods * ThresholdTicks
\* time between two updates: the last tick before the threshold, the threshold
Delays == {ThresholdTicks - 1, ThresholdTicks}

\* int(x) of a difference of two clock readings: truncation toward zero
WholeSeconds(diff) ==
    IF diff >= 0 THEN diff \div TicksPerSecond ELSE 0 - ((0 - diff) \div TicksPerSecond)

Max(a, b) == IF a >= b THEN a ELSE b

\* a stored last_activity_at: the float the handlers write, or a string
\* left by another writer of the session store
FloatVal(t) == [kind |-> "float", v |-> t]
StrVal(s) == [kind |-> "str", v |-> s]

(***************************** messages ************************************)
\* An inbound message: a text, a shared contact, or anything else (a photo,
\* a sticker).  Telegram delivers no empty text.
TextMsg(t) == [kind |-> "text", text |-> t, phone_number |-> <<>>, user_id |-> FALSE]
ContactMsg(p, uid) == [kind |-> "contact", text |-> <<>>, phone_number |-> p, user_id |-> uid]
OtherMsg == [kind |-> "other", text |-> <<>>, phone_number |-> <<>>, user_id |-> FALSE]

\* what users type: a text with surrounding whitespace, which is a number to
\* the strict quantity policy and "-" (no extra information) to the
\* persisting submission
FreeTexts(v) == IF v = "db" THEN { <<SP, "-">> } ELSE { <<SP, "5">> }

\* The begin-order label is sent where it is a button or may be mistaken for
\* one (no free-text handler is waiting): to a free-text handler it is one
\* more label, as the new-order label is.  To the handler that checks the
\* quantity a zero and a superscript two are typed; a text of whitespace
\* only, empty once trimmed, is sent as address and phone of a persisted order,
\* and extra information other than "-" at the last step.
Texts(v, st) ==
    FreeTexts(v) \cup {StartCommand, FAQ_BUTTON_TEXT, NEW_ORDER_BUTTON_TEXT}
    \cup (IF st \in {NoState, "waiting_for_order_start", "waiting_for_contact"}
          THEN {START_ORDER_BUTTON_TEXT} ELSE {})
    \cup (IF st = "waiting_for_quantity" /\ v = "app"
          THEN {<<"0">>, <<SuperscriptTwo>>} ELSE {})
    \cup (IF st = "waiting_for_extra_info" THEN {<<SP, "5">>} ELSE {})
    \cup (IF st \in {"waiting_for_address", "waiting_for_phone"} /\ v = "db"
          THEN {<<SP>>} ELSE {})
Phones == { <<"+", "7">>, <<>> }

\* A contact comes with or without a phone number and a user id where one
\* is asked for; elsewhere a contact is one more message without text.
Contacts(st) ==
    IF st = "waiting_for_contact"
    THEN {ContactMsg(p, TRUE) : p \in Phones} \cup {ContactMsg(<<"+", "7">>, FALSE)}
    ELSE {ContactMsg(<<"+", "7">>, TRUE)}

Messages(v, st) == {TextMsg(t) : t \in Texts(v, st)} \cup Contacts(st) \cup {OtherMsg}

\* the call positions of one handling that raise (a position the handling
\* never reaches raises nothing)
FaultSets == {F \in SUBSET (1..MaxCall) : Cardinality(F) <= MaxFaults}

(***************************** state ***************************************)
VARIABLES
    variant,      \* which OrderHandler the router was built with
    fsm_state,    \* FSMContext state of each user
    data,         \* FSMContext data of each user: key -> value
    now,          \* the clock, in ticks
    conv_orders,  \* rows inserted into orders for a user since the user last
                  \* entered waiting_for_extra_info
    last,         \* what the handling just made did (nothing once time passed)
    raw_value,    \* a stored field value handed to the summary formatting
    tasks,        \* the handlings of one user's updates that run concurrently
    process,      \* the bot process: its entry point, environment and phase
    rendered      \* what formatting it, and formatting the result again, gave,
                  \* each with the normalization that was applied

vars == <<variant, fsm_state, data, now, conv_orders, last, raw_value, process, rendered, tasks>>

EmptyData == [k \in {} |-> <<>>]

Has(d, k) == k \in DOMAIN d

\* dict.get(k): None when the key is absent
Get(d, k) == IF Has(d, k) THEN d[k] ELSE NoneVal

(***************************** calls ***************************************)
\* The running handling: the session as the storage holds it, the calls made
\* so far, the pending exception, and what went out.
NewCtx(u, F) ==
    [ st |-> fsm_state[u], d |-> data[u], n |-> 0, F |-> F, exc |-> FALSE,
      ret |-> FALSE, raised |-> FALSE, expired |-> FALSE, swallowed |-> FALSE,
      replies |-> <<>>,
      ins_called |-> FALSE, ins |-> <<>>, sent |-> <<>> ]

\* a storage, database or transport call is attempted: it raises when its
\* position is in F
Call(c) == [c EXCEPT !.n = @ + 1, !.exc = (c.n + 1) \in c.F]

\* state.get_data()
get_data(c) == IF c.exc THEN c ELSE Call(c)

\* state.update_data(k=v)
update_data(c, k, v) ==
    IF c.exc THEN c
    ELSE LET a == Call(c)
         IN  IF a.exc THEN a
             ELSE [a EXCEPT !.d = [x \in DOMAIN c.d \cup {k} |->
                                       IF x = k THEN v ELSE c.d[x]]]

\* state.set_state(s)
set_state(c, s) ==
    IF c.exc THEN c
    ELSE LET a == Call(c) IN IF a.exc THEN a ELSE [a EXCEPT !.st = s]

\* state.clear(): no state, no data
\* the state is reset and the stored data, the timestamp with it, is kept
clear_keeping_data(c) ==
    IF c.exc THEN c
    ELSE LET a == Call(c)
         IN  IF a.exc THEN a ELSE [a EXCEPT !.st = NoState]

clear(c) ==
    IF c.exc THEN c
    ELSE LET a == Call(c)
         IN  IF a.exc THEN a ELSE [a EXCEPT !.st = NoState, !.d = EmptyData]

\* message.answer(text)
answer(c, r) ==
    IF c.exc THEN c
    ELSE LET a == Call(c)
         IN  IF a.exc THEN a ELSE [a EXCEPT !.replies = Append(@, r)]

\* bot.send_message(chat_id=channel_id, text=formatted)
send_message(c, formatted) ==
    IF c.exc THEN c
    ELSE LET a == Call(c)
         IN  IF a.exc THEN a ELSE [a EXCEPT !.sent = Append(@, formatted)]

\* INSERT INTO orders ... RETURNING id
insert_order(c, row) ==
    IF c.exc THEN c
    ELSE LET a == [Call(c) EXCEPT !.ins_called = TRUE]
         IN  IF a.exc THEN a ELSE [a EXCEPT !.ins = Append(@, row)]

(***************************** idle check **********************************)
_touch_activity(c, t) == update_data(c, "last_activity_at", FloatVal(t))

\* float(str(x)) of a stored string: digits give seconds, anything else
\* raises ValueError
FloatParses(s) == isdecimal(strip(s))
FloatOf(s) == int(strip(s)) * TicksPerSecond

\* the threshold is compared with > instead of >=
_check_and_handle_idle_strict(c, t) ==
    LET expire(c2) == [answer(c2, "idle_notice") EXCEPT !.expired = ~c2.exc]
        notified(c3) == [c3 EXCEPT !.ret = ~c3.exc]
        check(c1) ==
            IF c1.exc THEN c1
            ELSE IF ~Has(c1.d, "last_activity_at")
                 THEN [_touch_activity(c1, t) EXCEPT !.ret = FALSE]
            ELSE IF c1.d["last_activity_at"].kind = "str"
                    /\ ~FloatParses(c1.d["last_activity_at"].v)
                 THEN [_touch_activity(c1, t) EXCEPT !.ret = FALSE]
            ELSE LET la == IF c1.d["last_activity_at"].kind = "str"
                           THEN FloatOf(c1.d["last_activity_at"].v)
                           ELSE c1.d["last_activity_at"].v
                     idle_seconds == Max(0, WholeSeconds(t - la))
                 IN  IF idle_seconds > _IDLE_THRESHOLD_SECONDS
                     THEN notified(expire(clear(c1)))
                     ELSE [c1 EXCEPT !.ret = FALSE]
        guarded(body) ==
            IF body.exc
            THEN [body EXCEPT !.exc = FALSE, !.ret = FALSE, !.swallowed = TRUE]
            ELSE body
    IN  guarded(check(get_data(c)))

\* a missing or unreadable timestamp is read as 0, the epoch
_check_and_handle_idle_defaulting(c, t) ==
    LET expire(c2) == [answer(c2, "idle_notice") EXCEPT !.expired = ~c2.exc]
        notified(c3) == [c3 EXCEPT !.ret = ~c3.exc]
        check(c1) ==
            IF c1.exc THEN c1
            ELSE LET la == IF ~Has(c1.d, "last_activity_at") THEN 0
                           ELSE IF c1.d["last_activity_at"].kind = "float"
                                THEN c1.d["last_activity_at"].v
                           ELSE IF FloatParses(c1.d["last_activity_at"].v)
                                THEN FloatOf(c1.d["last_activity_at"].v)
                           ELSE 0
                     idle_seconds == Max(0, WholeSeconds(t - la))
                 IN  IF idle_seconds >= _IDLE_THRESHOLD_SECONDS
                     THEN notified(expire(clear(c1)))
                     ELSE [c1 EXCEPT !.ret = FALSE]
        guarded(body) ==
            IF body.exc
            THEN [body EXCEPT !.exc = FALSE, !.ret = FALSE, !.swallowed = TRUE]
            ELSE body
    IN  guarded(check(get_data(c)))

\* an exception inside the check ends the handling: the check answers True
_check_and_handle_idle_closed(c, t) ==
    LET expire(c2) == [answer(c2, "idle_notice") EXCEPT !.expired = ~c2.exc]
        notified(c3) == [c3 EXCEPT !.ret = ~c3.exc]
        check(c1) ==
            IF c1.exc THEN c1
            ELSE IF ~Has(c1.d, "last_activity_at")
                 THEN [_touch_activity(c1, t) EXCEPT !.ret = FALSE]
            ELSE IF c1.d["last_activity_at"].kind = "str"
                    /\ ~FloatParses(c1.d["last_activity_at"].v)
                 THEN [_touch_activity(c1, t) EXCEPT !.ret = FALSE]
            ELSE LET la == IF c1.d["last_activity_at"].kind = "str"
                           THEN FloatOf(c1.d["last_activity_at"].v)
                           ELSE c1.d["last_activity_at"].v
                     idle_seconds == Max(0, WholeSeconds(t - la))
                 IN  IF idle_seconds >= _IDLE_THRESHOLD_SECONDS
                     THEN notified(expire(clear(c1)))
                     ELSE [c1 EXCEPT !.ret = FALSE]
        guarded(body) ==
            IF body.exc
            THEN [body EXCEPT !.exc = FALSE, !.ret = TRUE, !.swallowed = TRUE]
            ELSE body
    IN  guarded(check(get_data(c)))

\* Returns (in ret) whether the user was idle and the message is handled.
\* Every exception inside is swallowed and the check answers False.
_check_and_handle_idle(c, t) ==
    LET expire(c2) == [answer(c2, "idle_notice") EXCEPT !.expired = ~c2.exc]
        notified(c3) == [c3 EXCEPT !.ret = ~c3.exc]
        check(c1) ==
            IF c1.exc THEN c1
            ELSE IF ~Has(c1.d, "last_activity_at")
                 THEN [_touch_activity(c1, t) EXCEPT !.ret = FALSE]
            ELSE IF c1.d["last_activity_at"].kind = "str"
                    /\ ~FloatParses(c1.d["last_activity_at"].v)
                 THEN [_touch_activity(c1, t) EXCEPT !.ret = FALSE]
            ELSE LET la == IF c1.d["last_activity_at"].kind = "str"
                           THEN FloatOf(c1.d["last_activity_at"].v)
                           ELSE c1.d["last_activity_at"].v
                     idle_seconds == Max(0, WholeSeconds(t - la))
                 IN  IF idle_seconds >= _IDLE_THRESHOLD_SECONDS
                     THEN notified(expire(clear(c1)))
                     ELSE [c1 EXCEPT !.ret = FALSE]
        guarded(body) ==
            IF body.exc
            THEN [body EXCEPT !.exc = FALSE, !.ret = FALSE, !.swallowed = TRUE]
            ELSE body
    IN  guarded(check(get_data(c)))

(***************************** order summary *******************************)
UtcOffsetMoscow == 3 * 3600        \* ZoneInfo("Europe/Moscow")
UtcOffsetVladivostok == 10 * 3600  \* ZoneInfo("Asia/Vladivostok")

\* now_utc.astimezone(zone): the same instant with the zone's offset
astimezone(t, offset) == [instant |-> t, utcoffset |-> offset]

\* strftime("%Y-%m-%d %H:%M"): the zone's wall clock, cut to the minute
strftime(dt) == ((dt.instant \div TicksPerSecond) + dt.utcoffset) \div 60

\* src/handler.py: the summary of the persisting variant
_build_order_message_for_user(quantity_text, name_text, address_text, phone_text, manual_phone_text, extra_info_text, datetime_moscow, datetime_khabarovsk, order_id) ==
    [ order_id |-> order_id,
      datetime_moscow |-> datetime_moscow,
      datetime_khabarovsk |-> datetime_khabarovsk,
      phone_text |-> _normalize_phone(phone_text),
      manual_phone_text |-> manual_phone_text,
      name_text |-> StripOrDash(name_text),
      address_text |-> StripOrDash(address_text),
      quantity_text |-> StripOrDash(quantity_text),
      extra_info_text |-> StripOrDash(extra_info_text) ]

\* src/app/order/handler.py: the summary of the idle-checking variant
app_build_order_message_for_user(quantity_text, name_text, address_text, phone_text, extra_info_text) ==
    [ phone_text |-> _normalize_phone(phone_text),
      name_text |-> StripOrDash(name_text),
      address_text |-> StripOrDash(address_text),
      quantity_text |-> StripOrDash(quantity_text),
      extra_info_text |-> StripOrDash(extra_info_text) ]

(***************************** handlers: src/handler.py ********************)
handle_start(c) ==
    answer(set_state(clear(c), "waiting_for_order_start"), "greeting")

handle_start_order(c) ==
    answer(set_state(c, "waiting_for_contact"), "ask_contact")

\* the FAQ answer resets the session
handle_faq_resetting(c) == answer(clear(c), "faq")

handle_faq(c) == answer(c, "faq")

handle_contact(c, m) ==
    IF m.kind # "contact" \/ ~m.user_id
    THEN answer(c, "contact_retry")
    ELSE answer(set_state(update_data(c, "phone", m.phone_number),
                          "waiting_for_quantity"), "ask_quantity")

\* the quantity step jumps over the name step
handle_quantity_skipping(c, m) ==
    IF m.text = <<>> THEN c
    ELSE answer(set_state(update_data(c, "quantity", strip(m.text)),
                          "waiting_for_address"), "ask_address")

handle_quantity(c, m) ==
    IF m.text = <<>> THEN c
    ELSE answer(set_state(update_data(c, "quantity", strip(m.text)),
                          "waiting_for_name"), "ask_name")

\* the name step moves on without storing the name
handle_name_unsaved(c, m) ==
    IF m.text = <<>> THEN c
    ELSE answer(set_state(c, "waiting_for_address"), "ask_address")

handle_name(c, m) ==
    IF m.text = <<>> THEN c
    ELSE answer(set_state(update_data(c, "full_name", strip(m.text)),
                          "waiting_for_address"), "ask_address")

\* the address is stored and the phone is asked for, but the state stays
handle_address_stalled(c, m) ==
    IF m.text = <<>> THEN c
    ELSE answer(update_data(c, "address", strip(m.text)), "ask_phone")

handle_address(c, m) ==
    IF m.text = <<>> THEN c
    ELSE answer(set_state(update_data(c, "address", strip(m.text)),
                          "waiting_for_phone"), "ask_phone")

\* the phone step goes on to the declared state no handler is registered for
handle_phone_manual(c, m) ==
    LET phone_text == IF m.text # <<>> THEN strip(m.text) ELSE NoneVal
    IN  answer(set_state(update_data(c, "manual_phone", phone_text),
                         "waiting_for_manual_phone"), "ask_extra")

handle_phone(c, m) ==
    LET phone_text == IF m.text # <<>> THEN strip(m.text) ELSE NoneVal
    IN  answer(set_state(update_data(c, "manual_phone", phone_text),
                         "waiting_for_extra_info"), "ask_extra")

\* the summary is dispatched although the insert raised
handle_extra_info_notifying(c, m, t, uid) ==
    LET finish(c2, c3) ==
            IF c2.exc \/ c3.exc THEN answer([c3 EXCEPT !.exc = FALSE], "retry_later")
            ELSE answer(clear(c3), "confirmation")
        dispatch(c2) ==
            finish(c2, send_message([c2 EXCEPT !.exc = FALSE], [order_id |-> "id"]))
        submit(c1) ==
            IF c1.exc THEN c1 ELSE dispatch(insert_order(c1, [id |-> "id"]))
    IN  submit(get_data(c))

\* the session is cleared before the outcome of the submission is known
handle_extra_info_clearing(c, m, t, uid) ==
    LET finish(c3) ==
            IF c3.exc THEN answer([c3 EXCEPT !.exc = FALSE], "retry_later")
            ELSE answer(c3, "confirmation")
        submit(c1) ==
            IF c1.exc THEN c1
            ELSE finish(send_message(insert_order(c1, [id |-> "id"]),
                                     [order_id |-> "id"]))
    IN  submit(clear(get_data(c)))

\* the extra text is persisted as typed, "-" included
handle_extra_info_verbatim(c, m, t, uid) ==
    LET finish(c3) ==
            IF c3.exc THEN answer([c3 EXCEPT !.exc = FALSE], "retry_later")
            ELSE answer(clear(c3), "confirmation")
        submit(c1) ==
            IF c1.exc THEN c1
            ELSE finish(send_message(
                     insert_order(c1, [id |-> "id", extra_info |-> strip(m.text)]),
                     [order_id |-> "id"]))
    IN  submit(get_data(c))

\* the clock is read again, a minute later, for the second zone
handle_extra_info_resampled(c, m, t, uid) ==
    LET later == t + 60 * TicksPerSecond
        finish(c3) ==
            IF c3.exc THEN answer([c3 EXCEPT !.exc = FALSE], "retry_later")
            ELSE answer(clear(c3), "confirmation")
        submit(c1) ==
            IF c1.exc THEN c1
            ELSE finish(send_message(
                     insert_order(c1, [id |-> "id",
                         datetime_moscow |-> astimezone(t, UtcOffsetMoscow),
                         datetime_khabarovsk |-> astimezone(later, UtcOffsetVladivostok)]),
                     [order_id |-> "id",
                      datetime_moscow |-> strftime(astimezone(t, UtcOffsetMoscow)),
                      datetime_khabarovsk |->
                          strftime(astimezone(later, UtcOffsetVladivostok))]))
    IN  submit(get_data(c))

\* the id the table assigns to a new row
RETURNING_id == "id"

\* t: the clock; uid: message.from_user.id
handle_extra_info(c, m, t, uid) ==
    LET stripped == strip(m.text)
        extra_text == IF stripped = <<"-">> THEN <<>> ELSE stripped
        now_utc == t
        datetime_moscow == astimezone(now_utc, UtcOffsetMoscow)
        datetime_khabarovsk == astimezone(now_utc, UtcOffsetVladivostok)
        row(quantity_text, name_text, address_text, phone_text, manual_phone_text) ==
            [ id |-> RETURNING_id, tg_user_id |-> uid,
              phone_contact |-> phone_text, phone_manual |-> manual_phone_text,
              fio_receiver |-> name_text, address |-> address_text,
              quantity |-> quantity_text, extra_info |-> extra_text,
              datetime_moscow |-> datetime_moscow,
              datetime_khabarovsk |-> datetime_khabarovsk ]
        formatted(quantity_text, name_text, address_text, phone_text, manual_phone_text) ==
            _build_order_message_for_user(
                quantity_text, name_text, address_text, phone_text,
                manual_phone_text, extra_text, strftime(datetime_moscow),
                strftime(datetime_khabarovsk), RETURNING_id)
        finish(c3) ==
            IF c3.exc THEN answer([c3 EXCEPT !.exc = FALSE], "retry_later")
            ELSE answer(clear(c3), "confirmation")
        try(c1, quantity_text, name_text, address_text, phone_text, manual_phone_text) ==
            finish(send_message(
                insert_order(c1, row(quantity_text, name_text, address_text,
                                     phone_text, manual_phone_text)),
                formatted(quantity_text, name_text, address_text,
                          phone_text, manual_phone_text)))
        submit(c1) ==
            IF c1.exc THEN c1
            ELSE try(c1, OrDash(Get(c1.d, "quantity")), OrDash(Get(c1.d, "full_name")),
                     OrDash(Get(c1.d, "address")), Get(c1.d, "phone"),
                     Get(c1.d, "manual_phone"))
    IN  submit(get_data(c))

handle_new_order(c) == handle_start(c)

(***************************** handlers: src/app/order/handler.py **********)
app_handle_start(c, t) ==
    answer(_touch_activity(set_state(clear(c), "waiting_for_order_start"), t),
           "greeting")

app_handle_start_order(c, t) ==
    LET handle(c1) ==
            IF c1.ret THEN c1
            ELSE answer(set_state(_touch_activity(c1, t), "waiting_for_contact"),
                        "ask_contact")
    IN  handle(_check_and_handle_idle(c, t))

app_handle_faq(c) == answer(c, "faq")

app_handle_contact(c, m, t) ==
    LET validate(c2) ==
            IF m.kind # "contact" \/ ~m.user_id
            THEN answer(c2, "contact_retry")
            ELSE answer(set_state(update_data(c2, "phone", m.phone_number),
                                  "waiting_for_quantity"), "ask_quantity")
        handle(c1) == IF c1.ret THEN c1 ELSE validate(_touch_activity(c1, t))
    IN  handle(_check_and_handle_idle(c, t))

app_handle_quantity(c, m, t) ==
    LET text == strip(m.text)
        handle(c1) ==
            IF c1.ret THEN c1
            ELSE IF m.text = <<>> THEN c1
            ELSE IF ~isdigit(text) THEN answer(c1, "quantity_retry")
            ELSE IF ~isdecimal(text) THEN [c1 EXCEPT !.exc = TRUE]
            ELSE IF int(text) <= 0 THEN answer(c1, "quantity_retry")
            ELSE answer(set_state(update_data(_touch_activity(c1, t), "quantity", text),
                                  "waiting_for_name"), "ask_name")
    IN  handle(_check_and_handle_idle(c, t))

app_handle_name(c, m, t) ==
    LET handle(c1) ==
            IF c1.ret THEN c1
            ELSE IF m.text = <<>> THEN c1
            ELSE answer(set_state(update_data(_touch_activity(c1, t), "full_name",
                                              strip(m.text)),
                                  "waiting_for_address"), "ask_address")
    IN  handle(_check_and_handle_idle(c, t))

\* the address step stores and moves on without refreshing the timestamp
app_handle_address_untouched(c, m, t) ==
    LET handle(c1) ==
            IF c1.ret THEN c1
            ELSE IF m.text = <<>> THEN c1
            ELSE answer(set_state(update_data(c1, "address", strip(m.text)),
                                  "waiting_for_phone"), "ask_phone")
    IN  handle(_check_and_handle_idle(c, t))

app_handle_address(c, m, t) ==
    LET handle(c1) ==
            IF c1.ret THEN c1
            ELSE IF m.text = <<>> THEN c1
            ELSE answer(set_state(update_data(_touch_activity(c1, t), "address",
                                              strip(m.text)),
                                  "waiting_for_phone"), "ask_phone")
    IN  handle(_check_and_handle_idle(c, t))

app_handle_phone(c, m, t) ==
    LET typed == IF m.text # <<>> THEN strip(m.text) ELSE NoneVal
        phone_text == IF m.kind = "contact" /\ m.phone_number # <<>>
                      THEN m.phone_number ELSE typed
        handle(c1) ==
            IF c1.ret THEN c1
            ELSE answer(set_state(update_data(_touch_activity(c1, t), "phone", phone_text),
                                  "waiting_for_extra_info"), "ask_extra")
    IN  handle(_check_and_handle_idle(c, t))

app_handle_extra_info(c, m, t) ==
    LET stripped == strip(m.text)
        extra_text == IF stripped = <<"-">> THEN <<>> ELSE stripped
        finish(c3) ==
            IF c3.exc THEN answer([c3 EXCEPT !.exc = FALSE], "retry_later")
            ELSE answer(clear(c3), "confirmation")
        submit(c1) ==
            IF c1.exc THEN c1
            ELSE finish(send_message(c1, app_build_order_message_for_user(
                            OrDash(Get(c1.d, "quantity")), OrDash(Get(c1.d, "full_name")),
                            OrDash(Get(c1.d, "address")), Get(c1.d, "phone"),
                            extra_text)))
        handle(c0) == IF c0.ret THEN c0 ELSE submit(get_data(c0))
    IN  handle(_check_and_handle_idle(c, t))

app_handle_new_order(c, t) ==
    LET handle(c1) == IF c1.ret THEN c1 ELSE app_handle_start(c1, t)
    IN  handle(_check_and_handle_idle(c, t))

(***************************** router: src/app/order/routes.py *************)
\* the state is reset and the stored data is kept
fallback_resetting(c) == answer(set_state(c, NoState), "restart_notice")

fallback(c) == answer(clear(c), "restart_notice")

\* the exception left the handler: tell the user, then clear the session
errors_handler(c) ==
    clear(answer([c EXCEPT !.exc = FALSE, !.raised = TRUE], "restart_notice"))

\* the restart command is registered after the state handlers
route_start_last(st, m) ==
    IF m.kind = "text" /\ m.text = FAQ_BUTTON_TEXT THEN "handle_faq"
    ELSE IF st = "waiting_for_order_start" /\ m.text = START_ORDER_BUTTON_TEXT
         THEN "handle_start_order"
    ELSE IF m.kind = "contact" /\ st = "waiting_for_contact" THEN "handle_contact"
    ELSE IF st = "waiting_for_quantity" /\ m.text # <<>> THEN "handle_quantity"
    ELSE IF st = "waiting_for_name" /\ m.text # <<>> THEN "handle_name"
    ELSE IF st = "waiting_for_address" /\ m.text # <<>> THEN "handle_address"
    ELSE IF st = "waiting_for_phone" /\ m.text # <<>> THEN "handle_phone"
    ELSE IF st = "waiting_for_extra_info" /\ m.text # <<>> THEN "handle_extra_info"
    ELSE IF m.text = NEW_ORDER_BUTTON_TEXT THEN "handle_new_order"
    ELSE IF m.text = StartCommand THEN "handle_start"
    ELSE "fallback"

\* the begin-order button is also accepted in a session without state
route_start_order_idle(st, m) ==
    IF m.text = StartCommand THEN "handle_start"
    ELSE IF m.kind = "text" /\ m.text = FAQ_BUTTON_TEXT THEN "handle_faq"
    ELSE IF st \in {NoState, "waiting_for_order_start"} /\ m.text = START_ORDER_BUTTON_TEXT
         THEN "handle_start_order"
    ELSE IF m.kind = "contact" /\ st = "waiting_for_contact" THEN "handle_contact"
    ELSE IF st = "waiting_for_quantity" /\ m.text # <<>> THEN "handle_quantity"
    ELSE IF st = "waiting_for_name" /\ m.text # <<>> THEN "handle_name"
    ELSE IF st = "waiting_for_address" /\ m.text # <<>> THEN "handle_address"
    ELSE IF st = "waiting_for_phone" /\ m.text # <<>> THEN "handle_phone"
    ELSE IF st = "waiting_for_extra_info" /\ m.text # <<>> THEN "handle_extra_info"
    ELSE IF m.text = NEW_ORDER_BUTTON_TEXT THEN "handle_new_order"
    ELSE "fallback"

\* the first registered handler whose filters accept the message
\* the new-order button is registered before the state handlers
route_new_order_first(st, m) ==
    IF m.text = StartCommand THEN "handle_start"
    ELSE IF m.kind = "text" /\ m.text = FAQ_BUTTON_TEXT THEN "handle_faq"
    ELSE IF m.text = NEW_ORDER_BUTTON_TEXT THEN "handle_new_order"
    ELSE IF st = "waiting_for_order_start" /\ m.text = START_ORDER_BUTTON_TEXT
         THEN "handle_start_order"
    ELSE IF m.kind = "contact" /\ st = "waiting_for_contact" THEN "handle_contact"
    ELSE IF st = "waiting_for_quantity" /\ m.text # <<>> THEN "handle_quantity"
    ELSE IF st = "waiting_for_name" /\ m.text # <<>> THEN "handle_name"
    ELSE IF st = "waiting_for_address" /\ m.text # <<>> THEN "handle_address"
    ELSE IF st = "waiting_for_phone" /\ m.text # <<>> THEN "handle_phone"
    ELSE IF st = "waiting_for_extra_info" /\ m.text # <<>> THEN "handle_extra_info"
    ELSE "fallback"

route(st, m) ==
    IF m.text = StartCommand THEN "handle_start"
    ELSE IF m.kind = "text" /\ m.text = FAQ_BUTTON_TEXT THEN "handle_faq"
    ELSE IF st = "waiting_for_order_start" /\ m.text = START_ORDER_BUTTON_TEXT
         THEN "handle_start_order"
    ELSE IF m.kind = "contact" /\ st = "waiting_for_contact" THEN "handle_contact"
    ELSE IF st = "waiting_for_quantity" /\ m.text # <<>> THEN "handle_quantity"
    ELSE IF st = "waiting_for_name" /\ m.text # <<>> THEN "handle_name"
    ELSE IF st = "waiting_for_address" /\ m.text # <<>> THEN "handle_address"
    ELSE IF st = "waiting_for_phone" /\ m.text # <<>> THEN "handle_phone"
    ELSE IF st = "waiting_for_extra_info" /\ m.text # <<>> THEN "handle_extra_info"
    ELSE IF m.text = NEW_ORDER_BUTTON_TEXT THEN "handle_new_order"
    ELSE "fallback"

(***************************** dispatch *************************************)
\* The session store outlives the process.  A user has no session yet, or
\* one whose timestamp another writer of the store left as a string.
NewSession == [st |-> NoState, d |-> EmptyData]
LegacySessions ==
    { NewSession,
      [st |-> NoState, d |-> [k \in {"last_activity_at"} |-> StrVal(<<"x">>)]],
      [st |-> NoState, d |-> [k \in {"last_activity_at"} |-> StrVal(<<"5">>)]] }

NoHandling ==
    [ user |-> "", handler |-> "", msg |-> OtherMsg, at |-> 0,
      pre_st |-> NoState, pre_keys |-> {}, pre_la |-> <<>>, faulted |-> FALSE,
      raised |-> FALSE, exc |-> FALSE, expired |-> FALSE, ret |-> FALSE,
      swallowed |-> FALSE, replies |-> <<>>, ins_called |-> FALSE, ins |-> <<>>,
      sent |-> <<>> ]

\* The process: entry is the way it was started (long polling, or the cloud
\* function module of src/main.py), BOT_TOKEN and CHANNEL_ID are its
\* environment, phase is "loading" until the entry point ran, then "serving"
\* or "exited"; settings tells whether the module-level _cloud_settings is
\* set; healthy and rejected tell that a health request was answered 200,
\* an update request 500.
Process(entry, token, channel, phase) ==
    [ entry |-> entry, BOT_TOKEN |-> token, CHANNEL_ID |-> channel, phase |-> phase,
      settings |-> FALSE, healthy |-> FALSE, rejected |-> FALSE ]

\* a polling process that started with a complete configuration
Polling == Process("polling", <<"t">>, <<"-", "5">>, "serving")

\* no handling is in flight
NoTasks == [run |-> <<>>, overlapped |-> FALSE, sent |-> 0]

Init ==
    /\ variant \in {"db", "app"}
    /\ \E s \in LegacySessions :
          /\ fsm_state = [u \in Users |-> IF u \in ActiveUsers THEN s.st ELSE NoState]
          /\ data = [u \in Users |-> IF u \in ActiveUsers THEN s.d ELSE EmptyData]
    /\ now = 0
    /\ conv_orders = [u \in Users |-> 0]
    /\ last = NoHandling
    /\ raw_value = NoneVal
    /\ rendered = <<>>
    /\ process = Polling
    /\ tasks = NoTasks

\* one record of the storage is kept for all users
StorageWrite_shared(store, u, v) == [w \in DOMAIN store |-> v]

\* the FSM storage of the dispatcher keeps one record per user: what a
\* handling wrote through its FSMContext replaces the record of its user
StorageWrite(store, u, v) == [store EXCEPT ![u] = v]

\* the handler h of the variant in use, run on message m of user u
RunHandler(h, c, m, u) ==
    IF variant = "db"
    THEN CASE h = "handle_start" -> handle_start(c)
           [] h = "handle_faq" -> handle_faq(c)
           [] h = "handle_start_order" -> handle_start_order(c)
           [] h = "handle_contact" -> handle_contact(c, m)
           [] h = "handle_quantity" -> handle_quantity(c, m)
           [] h = "handle_name" -> handle_name(c, m)
           [] h = "handle_address" -> handle_address(c, m)
           [] h = "handle_phone" -> handle_phone(c, m)
           [] h = "handle_extra_info" -> handle_extra_info(c, m, now, u)
           [] h = "handle_new_order" -> handle_new_order(c)
           [] OTHER -> fallback(c)
    ELSE CASE h = "handle_start" -> app_handle_start(c, now)
           [] h = "handle_faq" -> app_handle_faq(c)
           [] h = "handle_start_order" -> app_handle_start_order(c, now)
           [] h = "handle_contact" -> app_handle_contact(c, m, now)
           [] h = "handle_quantity" -> app_handle_quantity(c, m, now)
           [] h = "handle_name" -> app_handle_name(c, m, now)
           [] h = "handle_address" -> app_handle_address(c, m, now)
           [] h = "handle_phone" -> app_handle_phone(c, m, now)
           [] h = "handle_extra_info" -> app_handle_extra_info(c, m, now)
           [] h = "handle_new_order" -> app_handle_new_order(c, now)
           [] OTHER -> fallback(c)

\* One update of user u is fed to the dispatcher: routed, handled, and an
\* exception that leaves the handler is given to errors_handler.
Deliver(u, m, F, h) ==
    LET dispatched(c1) == IF c1.exc THEN errors_handler(c1) ELSE c1
        commit(c2) ==
            /\ \A i \in F : i <= c2.n
            /\ fsm_state' = StorageWrite(fsm_state, u, c2.st)
            /\ data' = StorageWrite(data, u, c2.d)
            /\ conv_orders' = [conv_orders EXCEPT ![u] =
                  (IF c2.st = "waiting_for_extra_info"
                      /\ fsm_state[u] # "waiting_for_extra_info" THEN 0 ELSE @)
                  + Len(c2.ins)]
            /\ last' = [ user |-> u, handler |-> h, msg |-> m, at |-> now,
                         pre_st |-> fsm_state[u], pre_keys |-> DOMAIN data[u],
                         pre_la |-> IF Has(data[u], "last_activity_at")
                                    THEN <<data[u]["last_activity_at"]>> ELSE <<>>,
                         faulted |-> F # {},
                         raised |-> c2.raised, exc |-> c2.exc, expired |-> c2.expired,
                         ret |-> c2.ret, swallowed |-> c2.swallowed,
                         replies |-> c2.replies, ins_called |-> c2.ins_called,
                         ins |-> c2.ins, sent |-> c2.sent ]
    IN  /\ h = "handle_extra_info" => conv_orders[u] < MaxOrders
        /\ commit(dispatched(RunHandler(h, NewCtx(u, F), m, u)))
        /\ UNCHANGED <<variant, now, raw_value, rendered, process, tasks>>

\* the updates of user u that the router gives to handler h
Routed(u, h) == {m \in Messages(variant, fsm_state[u]) : route(fsm_state[u], m) = h}

Start(u) == \E m \in Routed(u, "handle_start"), F \in FaultSets : Deliver(u, m, F, "handle_start")
Faq(u) == \E m \in Routed(u, "handle_faq"), F \in FaultSets : Deliver(u, m, F, "handle_faq")
StartOrder(u) == \E m \in Routed(u, "handle_start_order"), F \in FaultSets : Deliver(u, m, F, "handle_start_order")
Contact(u) == \E m \in Routed(u, "handle_contact"), F \in FaultSets : Deliver(u, m, F, "handle_contact")
Quantity(u) == \E m \in Routed(u, "handle_quantity"), F \in FaultSets : Deliver(u, m, F, "handle_quantity")
Name(u) == \E m \in Routed(u, "handle_name"), F \in FaultSets : Deliver(u, m, F, "handle_name")
Address(u) == \E m \in Routed(u, "handle_address"), F \in FaultSets : Deliver(u, m, F, "handle_address")
Phone(u) == \E m \in Routed(u, "handle_phone"), F \in FaultSets : Deliver(u, m, F, "handle_phone")
ExtraInfo(u) == \E m \in Routed(u, "handle_extra_info"), F \in FaultSets : Deliver(u, m, F, "handle_extra_info")
NewOrder(u) == \E m \in Routed(u, "handle_new_order"), F \in FaultSets : Deliver(u, m, F, "handle_new_order")
Fallback(u) == \E m \in Routed(u, "fallback"), F \in FaultSets : Deliver(u, m, F, "fallback")

\* The time between two updates passes.  The clock is let run only where
\* a handler reads it: in the idle-checking variant against a stored
\* timestamp; in the persisting variant before an order is stamped
\* (waiting_for_extra_info), where nothing depends on how long it ran, so
\* one step off the initial time is all that is taken.
Tick ==
    /\ \/ /\ variant = "app"
          /\ \E u \in ActiveUsers : Has(data[u], "last_activity_at")
          /\ \E d \in Delays : now + d <= MaxTime /\ now' = now + d
       \/ /\ variant = "db"
          /\ \E u \in ActiveUsers : fsm_state[u] = "waiting_for_extra_info"
          /\ now = 0
          /\ now' = ThresholdTicks - 1
    /\ last' = NoHandling
    /\ UNCHANGED <<variant, fsm_state, data, conv_orders, raw_value, rendered, process, tasks>>

Next ==
    \/ \E u \in ActiveUsers : Start(u)
    \/ \E u \in ActiveUsers : Faq(u)
    \/ \E u \in ActiveUsers : StartOrder(u)
    \/ \E u \in ActiveUsers : Contact(u)
    \/ \E u \in ActiveUsers : Quantity(u)
    \/ \E u \in ActiveUsers : Name(u)
    \/ \E u \in ActiveUsers : Address(u)
    \/ \E u \in ActiveUsers : Phone(u)
    \/ \E u \in ActiveUsers : ExtraInfo(u)
    \/ \E u \in ActiveUsers : NewOrder(u)
    \/ \E u \in ActiveUsers : Fallback(u)
    \/ Tick

Spec == Init /\ [][Next]_vars

TypeOK ==
    /\ variant \in {"db", "app"}
    /\ \A u \in Users : fsm_state[u] \in StateSet
    /\ now \in 0..MaxTime
    /\ \A u \in Users : conv_orders[u] \in 0..MaxOrders

(***************************** display normalization ***********************)
\* The formatting of one field value, apart from any conversation: the
\* value is any text of up to MaxLen characters (whitespace, a digit, the
\* placeholder itself) or None, and the two normalizations of
\* _build_order_message_for_user are applied to it and to what they gave.
RawChars == {SP, "5", DASH[1]}
RawValues ==
    {NoneVal} \cup UNION { [1..n -> RawChars] : n \in 0..MaxLen }

InitDisplay ==
    /\ variant = "db"
    /\ fsm_state = [u \in Users |-> NoState]
    /\ data = [u \in Users |-> EmptyData]
    /\ now = 0
    /\ conv_orders = [u \in Users |-> 0]
    /\ last = NoHandling
    /\ raw_value \in RawValues
    /\ process = Polling
    /\ tasks = NoTasks
    /\ rendered = <<>>

\* what is formatted next: the raw value, or the result of the last formatting
ToFormat == IF rendered = <<>> THEN raw_value ELSE rendered[Len(rendered)].text

\* name_text = (name_text or "").strip() or DASH
FormatField ==
    /\ Len(rendered) < 2
    /\ rendered' = Append(rendered, [by |-> "field", text |-> StripOrDash(ToFormat)])
    /\ UNCHANGED <<variant, fsm_state, data, now, conv_orders, last, raw_value, process, tasks>>

\* phone_text = _normalize_phone(phone_text)
FormatPhone ==
    /\ Len(rendered) < 2
    /\ rendered' = Append(rendered, [by |-> "phone", text |-> _normalize_phone(ToFormat)])
    /\ UNCHANGED <<variant, fsm_state, data, now, conv_orders, last, raw_value, process, tasks>>

NextDisplay == FormatField \/ FormatPhone

SpecDisplay == InitDisplay /\ [][NextDisplay]_vars

(***************************** several users ********************************)
\* Updates of all users reach the dispatcher in any order; a call of a
\* handling may raise.
UserFaults == {F \in FaultSets : Cardinality(F) <= 1}

\* what each user sends: the restart command, the begin-order button, a
\* contact of their own, a free text
UserMessages(v) ==
    {TextMsg(t) : t \in FreeTexts(v) \cup {StartCommand, START_ORDER_BUTTON_TEXT}}
    \cup {ContactMsg(<<"+", "7">>, TRUE)}

InitUsers ==
    /\ variant \in {"db", "app"}
    /\ fsm_state = [u \in Users |-> NoState]
    /\ data = [u \in Users |-> EmptyData]
    /\ now = 0
    /\ conv_orders = [u \in Users |-> 0]
    /\ last = NoHandling
    /\ raw_value = NoneVal
    /\ rendered = <<>>
    /\ process = Polling
    /\ tasks = NoTasks

Handle(u) ==
    \E h \in { "handle_start", "handle_faq", "handle_start_order", "handle_contact",
                "handle_quantity", "handle_name", "handle_address", "handle_phone",
                "handle_extra_info", "handle_new_order", "fallback" } :
        \E m \in Routed(u, h) \cap UserMessages(variant), F \in UserFaults :
            Deliver(u, m, F, h)

\* time passes between two updates once a session holds a timestamp
Elapse ==
    /\ variant = "app"
    /\ \E u \in Users : Has(data[u], "last_activity_at")
    /\ \E d \in Delays : now + d <= MaxTime /\ now' = now + d
    /\ last' = NoHandling
    /\ UNCHANGED <<variant, fsm_state, data, conv_orders, raw_value, rendered, process, tasks>>

NextUsers == (\E u \in Users : Handle(u)) \/ Elapse

SpecUsers == InitUsers /\ [][NextUsers]_vars

(***************************** concurrent updates of one user ***************)
\* The dispatcher handles each update in a task of its own.  Two updates of
\* one user are each routed on the state they find and then perform the
\* storage calls of their handler (src/handler.py) one at a time, in any
\* interleaving: an await between two calls lets the other task run.
StorageCall(op, key, val, st) == [op |-> op, key |-> key, val |-> val, st |-> st]
Update(key, val) == StorageCall("update_data", key, val, NoState)
SetState(st) == StorageCall("set_state", "", <<>>, st)
Other(op) == StorageCall(op, "", <<>>, NoState)

\* the calls of handler h on message m, in program order
Calls(h, m) ==
    CASE h = "handle_start" ->
            << Other("clear"), SetState("waiting_for_order_start"), Other("answer") >>
      [] h = "handle_start_order" ->
            << SetState("waiting_for_contact"), Other("answer") >>
      [] h = "handle_contact" ->
            IF m.kind # "contact" \/ ~m.user_id THEN << Other("answer") >>
            ELSE << Update("phone", m.phone_number), SetState("waiting_for_quantity"),
                    Other("answer") >>
      [] h = "handle_quantity" ->
            << Update("quantity", strip(m.text)), SetState("waiting_for_name"),
               Other("answer") >>
      [] h = "handle_name" ->
            << Update("full_name", strip(m.text)), SetState("waiting_for_address"),
               Other("answer") >>
      [] h = "handle_address" ->
            << Update("address", strip(m.text)), SetState("waiting_for_phone"),
               Other("answer") >>
      [] h = "handle_phone" ->
            << Update("manual_phone", strip(m.text)), SetState("waiting_for_extra_info"),
               Other("answer") >>
      [] h = "handle_extra_info" ->
            << Other("get_data"), Other("insert_order"), Other("send_message"),
               Other("clear"), Other("answer") >>
      [] h = "fallback" -> << Other("clear"), Other("answer") >>
      [] OTHER -> << Other("answer") >>

\* update_data stores nothing
ApplyCall_dropping(call, s) ==
    CASE call.op = "clear" -> NewSession
      [] call.op = "set_state" -> [s EXCEPT !.st = call.st]
      [] OTHER -> s

\* what a storage call makes of the session s
ApplyCall(call, s) ==
    CASE call.op = "clear" -> NewSession
      [] call.op = "set_state" -> [s EXCEPT !.st = call.st]
      [] call.op = "update_data" ->
            [s EXCEPT !.d = [k \in DOMAIN s.d \cup {call.key} |->
                                IF k = call.key THEN call.val ELSE s.d[k]]]
      [] OTHER -> s

\* the keys the steps before state st have stored
CapturedBefore(st) ==
    CASE st = "waiting_for_quantity" -> {"phone"}
      [] st = "waiting_for_name" -> {"phone", "quantity"}
      [] st = "waiting_for_address" -> {"phone", "quantity", "full_name"}
      [] st = "waiting_for_phone" -> {"phone", "quantity", "full_name", "address"}
      [] st = "waiting_for_extra_info" ->
            {"phone", "quantity", "full_name", "address", "manual_phone"}
      [] OTHER -> {}

RaceUser == "u1"
RaceStates ==
    { NoState, "waiting_for_order_start", "waiting_for_contact", "waiting_for_quantity",
      "waiting_for_name", "waiting_for_address", "waiting_for_phone",
      "waiting_for_extra_info" }
RaceMessages ==
    { TextMsg(StartCommand), TextMsg(START_ORDER_BUTTON_TEXT), TextMsg(<<SP, "-">>),
      ContactMsg(<<"+", "7">>, TRUE) }
NewTask(m) == [m |-> m, h |-> "", calls |-> <<>>, pc |-> 0]

\* a task that was routed and has calls left
InFlight(t) == t.pc >= 1 /\ t.pc <= Len(t.calls)
Finished(t) == t.pc > Len(t.calls)

\* a session as the conversation left it, and two updates of its user
InitRace ==
    /\ variant = "db"
    /\ \E st \in RaceStates :
          /\ fsm_state = [u \in Users |-> IF u = RaceUser THEN st ELSE NoState]
          /\ data = [u \in Users |-> IF u = RaceUser
                                       THEN [k \in CapturedBefore(st) |-> <<"-">>]
                                       ELSE EmptyData]
    /\ now = 0
    /\ conv_orders = [u \in Users |-> 0]
    /\ last = NoHandling
    /\ raw_value = NoneVal
    /\ rendered = <<>>
    /\ process = Polling
    /\ \E m1 \in RaceMessages, m2 \in RaceMessages :
          tasks = [run |-> <<NewTask(m1), NewTask(m2)>>, overlapped |-> FALSE, sent |-> 0]

OtherInFlight(i) == \E j \in DOMAIN tasks.run : j # i /\ InFlight(tasks.run[j])

\* the update of task i is routed on the state of the session
RouteTask(i) ==
    /\ tasks.run[i].pc = 0
    /\ LET h == route(fsm_state[RaceUser], tasks.run[i].m)
       IN  tasks' = [ run |-> [tasks.run EXCEPT ![i] =
                                  [@ EXCEPT !.h = h, !.calls = Calls(h, tasks.run[i].m), !.pc = 1]],
                      overlapped |-> tasks.overlapped \/ OtherInFlight(i),
                      sent |-> tasks.sent ]
    /\ UNCHANGED <<variant, fsm_state, data, now, conv_orders, last, raw_value, rendered, process>>

\* task i performs its next call
CallTask(i) ==
    /\ InFlight(tasks.run[i])
    /\ LET call == tasks.run[i].calls[tasks.run[i].pc]
           s == ApplyCall(call, [st |-> fsm_state[RaceUser], d |-> data[RaceUser]])
       IN  /\ fsm_state' = StorageWrite(fsm_state, RaceUser, s.st)
           /\ data' = StorageWrite(data, RaceUser, s.d)
           /\ conv_orders' = [conv_orders EXCEPT ![RaceUser] =
                                 IF call.op = "insert_order" THEN @ + 1 ELSE @]
    /\ tasks' = [ run |-> [tasks.run EXCEPT ![i] = [@ EXCEPT !.pc = @ + 1]],
                  overlapped |-> tasks.overlapped \/ OtherInFlight(i),
                  sent |-> IF tasks.run[i].calls[tasks.run[i].pc].op = "send_message"
                           THEN tasks.sent + 1 ELSE tasks.sent ]
    /\ UNCHANGED <<variant, now, last, raw_value, rendered, process>>

NextRace == \E i \in 1..2 : RouteTask(i) \/ CallTask(i)

SpecRace == InitRace /\ [][NextRace]_vars

(***************************** startup: src/main.py ************************)
\* int(raw) of a stripped text: an optional sign and decimal digits
IsInt(raw) ==
    LET body == IF raw # <<>> /\ raw[1] \in {"+", "-"} THEN Tail(raw) ELSE raw
    IN  body # <<>> /\ isdecimal(body)

\* Settings.from_environment() returns (TRUE) or raises RuntimeError (FALSE)
from_environment(p) ==
    LET token == strip(p.BOT_TOKEN)
        channel_id_raw == strip(p.CHANNEL_ID)
    IN  token # <<>> /\ channel_id_raw # <<>> /\ IsInt(channel_id_raw)

\* _resolve_target_channel_id() returns (TRUE) or raises RuntimeError (FALSE)
_resolve_target_channel_id(p) ==
    LET raw == strip(p.CHANNEL_ID)
    IN  raw # <<>> /\ IsInt(raw)

Tokens == { <<>>, <<"t">> }
ChannelIds == { <<>>, <<SP>>, <<"x">>, <<"-", "5">> }
HandlerNames ==
    { "handle_start", "handle_faq", "handle_start_order", "handle_contact",
      "handle_quantity", "handle_name", "handle_address", "handle_phone",
      "handle_extra_info", "handle_new_order", "fallback" }

InitStartup ==
    /\ variant \in {"db", "app"}
    /\ fsm_state = [u \in Users |-> NoState]
    /\ data = [u \in Users |-> EmptyData]
    /\ now = 0
    /\ conv_orders = [u \in Users |-> 0]
    /\ last = NoHandling
    /\ raw_value = NoneVal
    /\ rendered = <<>>
    /\ tasks = NoTasks
    /\ \E e \in {"polling", "cloud"}, t \in Tokens, ch \in ChannelIds :
          process = Process(e, t, ch, "loading")

\* main(): the settings are read first; an exception ends the process
PollingMain ==
    /\ process.entry = "polling" /\ process.phase = "loading"
    /\ process' = [process EXCEPT !.phase = IF from_environment(process)
                                             THEN "serving" ELSE "exited"]
    /\ UNCHANGED <<variant, fsm_state, data, now, conv_orders, last, raw_value, rendered, tasks>>

\* the module-level initialization of the cloud function: an exception of
\* the settings is logged and the module is loaded with _cloud_settings None
CloudImport ==
    /\ process.entry = "cloud" /\ process.phase = "loading"
    /\ process' = [process EXCEPT !.phase = "serving",
                                  !.settings = from_environment(process)]
    /\ UNCHANGED <<variant, fsm_state, data, now, conv_orders, last, raw_value, rendered, tasks>>

\* handler(event, context) on GET / or /health
Health ==
    /\ process.entry = "cloud" /\ process.phase = "serving"
    /\ process' = [process EXCEPT !.healthy = TRUE]
    /\ UNCHANGED <<variant, fsm_state, data, now, conv_orders, last, raw_value, rendered, tasks>>

\* handler(event, context) on an update while
\* `_cloud_settings or Settings.from_environment()` raises: status 500
WebhookRejected ==
    /\ process.entry = "cloud" /\ process.phase = "serving"
    /\ ~(process.settings \/ from_environment(process))
    /\ process' = [process EXCEPT !.rejected = TRUE]
    /\ UNCHANGED <<variant, fsm_state, data, now, conv_orders, last, raw_value, rendered, tasks>>

\* an update reaches the dispatcher (dp.start_polling, dp.feed_update)
FeedUpdate ==
    /\ process.phase = "serving"
    /\ process.entry = "cloud" => process.settings \/ from_environment(process)
    /\ \E u \in ActiveUsers, h \in HandlerNames :
          \E m \in Routed(u, h) : Deliver(u, m, {}, h)

NextStartup == PollingMain \/ CloudImport \/ Health \/ WebhookRejected \/ FeedUpdate

SpecStartup == InitStartup /\ [][NextStartup]_vars

(***************************** long silences ********************************)
\* One user of the idle-checking variant whose silences add up to more than
\* one threshold: time passes while a timestamp is stored and after an
\* expiry, and the last handling is remembered while it passes.
IdleHorizon == (MaxPeriods + 1) * ThresholdTicks
IdleMessages(v) == UserMessages(v) \cup {TextMsg(NEW_ORDER_BUTTON_TEXT)}

InitIdle ==
    /\ variant = "app"
    /\ fsm_state = [u \in Users |-> NoState]
    /\ data = [u \in Users |-> EmptyData]
    /\ now = 0
    /\ conv_orders = [u \in Users |-> 0]
    /\ last = NoHandling
    /\ raw_value = NoneVal
    /\ rendered = <<>>
    /\ process = Polling
    /\ tasks = NoTasks

HandleTimed ==
    \E u \in ActiveUsers, h \in HandlerNames :
        \E m \in Routed(u, h) \cap IdleMessages(variant), F \in UserFaults :
            Deliver(u, m, F, h)

Silence ==
    /\ \E u \in ActiveUsers : Has(data[u], "last_activity_at") \/ last.expired
    /\ \E d \in Delays : now + d <= IdleHorizon /\ now' = now + d
    /\ UNCHANGED <<variant, fsm_state, data, conv_orders, last, raw_value, rendered, process, tasks>>

NextIdle == HandleTimed \/ Silence

SpecIdle == InitIdle /\ [][NextIdle]_vars

(***************************** properties ***********************************)
Cleared(u) == fsm_state[u] = NoState /\ data[u] = EmptyData

\* the handlers that begin with the idle check
IdleChecked ==
    { "handle_start_order", "handle_contact", "handle_quantity", "handle_name",
      "handle_address", "handle_phone", "handle_extra_info", "handle_new_order" }

\* the handling began with a session holding a timestamp that reads as a
\* number: a float, or a string of digits
HadTimestamp ==
    /\ Len(last.pre_la) = 1
    /\ last.pre_la[1].kind = "str" => FloatParses(last.pre_la[1].v)

\* ... or with one holding none, or a string that is no number
HadNoTimestamp ==
    \/ last.pre_la = <<>>
    \/ Len(last.pre_la) = 1 /\ last.pre_la[1].kind = "str"
       /\ ~FloatParses(last.pre_la[1].v)

\* ticks from the stored timestamp to the handling
IdleTicks ==
    last.at - (IF last.pre_la[1].kind = "str" THEN FloatOf(last.pre_la[1].v)
               ELSE last.pre_la[1].v)

\* position of a state in the conversation; idle (no state, or waiting for
\* the order to start) is 0
Rank(st) ==
    CASE st = "waiting_for_contact" -> 1
      [] st = "waiting_for_quantity" -> 2
      [] st = "waiting_for_name" -> 3
      [] st = "waiting_for_address" -> 4
      [] st = "waiting_for_phone" -> 5
      [] st = "waiting_for_extra_info" -> 6
      [] st = "waiting_for_manual_phone" -> 100
      [] OTHER -> 0

\* C1: whenever handle_extra_info calls insert_order, the session it read
\* holds quantity, full_name, address and at least one of the two phone keys;
\* no row is written for a session that never captured name or address.
C1_InsertOnlyWithCapturedFields ==
    last.ins_called =>
        /\ last.handler = "handle_extra_info"
        /\ {"quantity", "full_name", "address"} \subseteq last.pre_keys
        /\ {"phone", "manual_phone"} \cap last.pre_keys # {}

C1_Witness ==
    /\ last.handler = "handle_extra_info"
    /\ Len(last.ins) = 1
    /\ "full_name" \in last.pre_keys

\* C2: between entering waiting_for_extra_info and leaving it, at most one
\* row is inserted into orders, resends after a failed dispatch included.
C2_AtMostOneOrderPerConversation == \A u \in Users : conv_orders[u] <= 1

\* C3: the operator is notified only after the order was persisted: a
\* summary goes out only when the insert returned, and when the insert
\* raises nothing is dispatched and the user is told to retry later.
C3_NotifyOnlyAfterPersist ==
    /\ (variant = "db" /\ last.sent # <<>>) => last.ins # <<>>
    /\ (last.ins_called /\ last.ins = <<>>) =>
          /\ last.sent = <<>>
          /\ ~last.raised => last.replies = <<"retry_later">>

C3_Witness ==
    /\ last.ins_called
    /\ last.ins = <<>>
    /\ last.replies = <<"retry_later">>

\* C4: a submission that fails (the handler answers retry-later) leaves the
\* session as it was: the state stays waiting_for_extra_info and every
\* stored field keeps its value.
C4_FailedSubmissionKeepsSession ==
    [][ ( /\ now' = now
          /\ last'.handler = "handle_extra_info"
          /\ last'.replies = <<"retry_later">> )
        => /\ fsm_state' = fsm_state
           /\ data' = data
           /\ fsm_state[last'.user] = "waiting_for_extra_info" ]_vars

\* C5: in the persisting handle_extra_info the session is cleared and the
\* confirmation is sent exactly when both the insert and the dispatch
\* succeeded; after a failed insert or dispatch the session is not cleared
\* and no confirmation is sent.
C5_ClearAndConfirmIffBothSucceed ==
    (variant = "db" /\ last.handler = "handle_extra_info") =>
        LET both == last.ins # <<>> /\ last.sent # <<>>
            confirmed == "confirmation" \in {last.replies[i] : i \in 1..Len(last.replies)}
        IN  /\ confirmed => both /\ Cleared(last.user)
            /\ ~last.raised => (both <=> confirmed)
            /\ ~last.raised => (both <=> Cleared(last.user))
            /\ (~last.raised /\ ~both) => fsm_state[last.user] = "waiting_for_extra_info"

C5_Witness ==
    /\ variant = "db"
    /\ last.handler = "handle_extra_info"
    /\ last.replies = <<"confirmation">>
    /\ Cleared(last.user)

\* C6: every change of a session's state is a step to the next state of the
\* sequence or a reset to idle.
C6_LinearOrder ==
    last.user \in Users =>
        LET a == last.pre_st
            b == fsm_state[last.user]
        IN  a = b \/ Rank(b) = 0 \/ Rank(b) = Rank(a) + 1

C6_Witness ==
    /\ last.handler = "handle_phone"
    /\ last.pre_st = "waiting_for_phone"
    /\ fsm_state[last.user] = "waiting_for_extra_info"

\* C7: /start is handled by handle_start in every state and however long
\* the user was idle: it is never answered with the idle notice, and when
\* the handler completes the session is waiting_for_order_start with no
\* order field.
C7_StartAlwaysRestarts ==
    last.msg = TextMsg(StartCommand) =>
        /\ last.handler = "handle_start"
        /\ \A i \in 1..Len(last.replies) : last.replies[i] # "idle_notice"
        /\ ~last.raised =>
              /\ fsm_state[last.user] = "waiting_for_order_start"
              /\ DOMAIN data[last.user] \subseteq {"last_activity_at"}
              /\ last.replies = <<"greeting">>

C7_Witness ==
    /\ last.msg = TextMsg(StartCommand)
    /\ last.pre_st = "waiting_for_extra_info"
    /\ HadTimestamp
    /\ IdleTicks >= 540 * TicksPerSecond
    /\ fsm_state[last.user] = "waiting_for_order_start"

C9_ExpiredMessageDiscarded ==
    last.expired =>
        /\ Cleared(last.user)
        /\ last.replies = <<"idle_notice">>
        /\ last.sent = <<>>
        /\ ~last.raised

\* C10: a session without last_activity_at, or with a stored value that is
\* no number, is never expired by the idle check: the check stamps it with
\* the current time and the message is handled.
C10_NoTimestampNeverExpires ==
    ( /\ variant = "app"
      /\ last.handler \in IdleChecked
      /\ HadNoTimestamp )
    => /\ ~last.expired
       /\ ~last.ret
       /\ \A i \in 1..Len(last.replies) : last.replies[i] # "idle_notice"
       /\ (~last.swallowed /\ ~last.raised) =>
             /\ Has(data[last.user], "last_activity_at")
             /\ data[last.user]["last_activity_at"] = FloatVal(last.at)
             /\ last.replies # <<>>

C10_Witness ==
    /\ variant = "app"
    /\ last.handler = "handle_new_order"
    /\ HadNoTimestamp
    /\ last.replies = <<"greeting">>
    /\ Has(data[last.user], "last_activity_at")
    /\ data[last.user]["last_activity_at"] = FloatVal(last.at)

\* the keys a handler of the conversation writes besides the timestamp
OwnKeys(h) ==
    CASE h = "handle_contact" -> {"phone"}
      [] h = "handle_quantity" -> {"quantity"}
      [] h = "handle_name" -> {"full_name"}
      [] h = "handle_address" -> {"address"}
      [] h = "handle_phone" -> IF variant = "db" THEN {"manual_phone"} ELSE {"phone"}
      [] OTHER -> {}

\* C11: the idle check fails open.  When a storage call of the check raises
\* before the session was touched (the read of the session, the write of
\* the timestamp), the exception is swallowed, the check answers False and
\* no idle notice is sent; the handler then handles the message on the
\* session as it was: it answers, and unless it restarts or completes the
\* order every field stored before keeps its value and the state stays or
\* moves one step on.
C11_IdleCheckFailsOpen ==
    [][ ( /\ variant = "app"
          /\ last'.handler \in IdleChecked
          /\ last'.swallowed
          /\ ~last'.expired )
        => LET u == last'.user
               h == last'.handler
           IN  /\ ~last'.ret
               /\ \A i \in 1..Len(last'.replies) : last'.replies[i] # "idle_notice"
               /\ ~last'.raised =>
                     /\ last'.replies # <<>>
                     /\ h = "handle_new_order" =>
                           fsm_state'[u] = "waiting_for_order_start"
                     /\ last'.replies = <<"confirmation">> =>
                           fsm_state'[u] = NoState /\ data'[u] = EmptyData
                     /\ (h # "handle_new_order" /\ last'.replies # <<"confirmation">>) =>
                           /\ \A k \in DOMAIN data[u] \ (OwnKeys(h) \cup {"last_activity_at"}) :
                                 Has(data'[u], k) /\ data'[u][k] = data[u][k]
                           /\ \/ fsm_state'[u] = fsm_state[u]
                              \/ Rank(fsm_state'[u]) = Rank(fsm_state[u]) + 1 ]_vars

C11_Witness ==
    /\ variant = "app"
    /\ last.handler = "handle_name"
    /\ last.swallowed
    /\ ~last.expired
    /\ ~last.raised
    /\ last.replies = <<"ask_address">>
    /\ fsm_state[last.user] = "waiting_for_address"
    /\ Has(data[last.user], "full_name")

\* the commands and buttons that are handled alike in every state
GlobalTexts == {StartCommand, FAQ_BUTTON_TEXT, NEW_ORDER_BUTTON_TEXT}

\* C12: in waiting_for_contact an update that is no contact of the sender
\* (plain text, another message type, a contact without user id) and no
\* global command is answered with the contact re-prompt only: the state
\* stays waiting_for_contact and the stored keys are the same.
C12_ContactStateRepromptsOnly ==
    ( /\ last.pre_st = "waiting_for_contact"
      /\ ~(last.msg.kind = "contact" /\ last.msg.user_id)
      /\ last.msg.text \notin GlobalTexts
      /\ ~last.raised /\ ~last.expired /\ ~last.swallowed )
    => /\ fsm_state[last.user] = "waiting_for_contact"
       /\ DOMAIN data[last.user] = last.pre_keys
       /\ last.replies = <<"contact_retry">>

\* C13: in waiting_for_contact a contact is accepted exactly when its phone
\* number is not empty: then the number is stored under phone and the state
\* becomes waiting_for_quantity; with an empty number it is re-prompted.
C13_ContactAcceptedIffPhone ==
    ( /\ last.handler = "handle_contact"
      /\ ~last.raised /\ ~last.expired /\ ~last.swallowed )
    => IF last.msg.phone_number # <<>>
       THEN /\ fsm_state[last.user] = "waiting_for_quantity"
            /\ Has(data[last.user], "phone")
            /\ data[last.user]["phone"] = last.msg.phone_number
       ELSE /\ fsm_state[last.user] = "waiting_for_contact"
            /\ last.replies = <<"contact_retry">>

\* the handlers of the four free-text steps and the prompt each ends with
TextSteps == {"handle_quantity", "handle_name", "handle_address", "handle_phone"}
NextPrompt(h) ==
    CASE h = "handle_quantity" -> "ask_name"
      [] h = "handle_name" -> "ask_address"
      [] h = "handle_address" -> "ask_phone"
      [] h = "handle_phone" -> "ask_extra"
      [] OTHER -> ""

\* the keys stored by the steps that come before the step of handler h
EarlierKeys(h) ==
    CASE h = "handle_quantity" -> {"phone"}
      [] h = "handle_name" -> {"phone", "quantity"}
      [] h = "handle_address" -> {"phone", "quantity", "full_name"}
      [] h = "handle_phone" -> {"phone", "quantity", "full_name", "address"}
      [] OTHER -> {}

\* C14: a text accepted in waiting_for_quantity, waiting_for_name,
\* waiting_for_address or waiting_for_phone is stored trimmed under the key
\* of that step, every field of an earlier step keeps its value, and the state
\* becomes the next one of the sequence.
C14_TextStepStoresOwnField ==
    [][ ( /\ last'.handler \in TextSteps
          /\ last'.replies = <<NextPrompt(last'.handler)>>
          /\ ~last'.raised /\ ~last'.expired /\ ~last'.swallowed )
        => LET u == last'.user
           IN  /\ \E k \in OwnKeys(last'.handler) :
                     Has(data'[u], k) /\ data'[u][k] = strip(last'.msg.text)
               /\ \A k \in DOMAIN data[u] \cap EarlierKeys(last'.handler) :
                     Has(data'[u], k) /\ data'[u][k] = data[u][k]
               /\ Rank(fsm_state'[u]) = Rank(fsm_state[u]) + 1 ]_vars

\* C15: an update no registered handler accepts in the current state (for
\* one, an update with neither text nor contact, in any state) is handled by
\* the fallback, which leaves the session cleared, no state and no data, and
\* answers the restart notice and nothing else.
C15_FallbackClearsSession ==
    /\ (last.user \in Users /\ last.msg.kind = "other") => last.handler = "fallback"
    /\ (last.handler = "fallback" /\ ~last.raised) =>
          /\ Cleared(last.user)
          /\ last.replies = <<"restart_notice">>

C15_Witness ==
    /\ last.handler = "fallback"
    /\ last.msg.kind = "other"
    /\ last.pre_st = "waiting_for_address"
    /\ {"phone", "quantity", "full_name"} \subseteq last.pre_keys
    /\ ~last.raised
    /\ Cleared(last.user)

\* the last handling reset the session of u: a submission that was
\* confirmed, an idle expiry, or the fallback
AfterReset(u) ==
    /\ last.user = u
    /\ ~last.raised
    /\ Cleared(u)
    /\ \/ last.replies = <<"confirmation">>
       \/ last.expired /\ last.ret
       \/ last.handler = "fallback"

\* C16 as stated: after a confirmed submission, an idle expiry or the
\* fallback, the begin-order button is accepted next and moves the session
\* to waiting_for_contact.
C16_ResetAcceptsBeginOrder ==
    [][ \A u \in Users :
          ( /\ AfterReset(u)
            /\ last'.user = u
            /\ last'.msg = TextMsg(START_ORDER_BUTTON_TEXT)
            /\ ~last'.raised )
          => fsm_state'[u] = "waiting_for_contact" ]_vars

\* C16 amended: those resets leave the session with no state, which is not
\* the state after /start (waiting_for_order_start).  The begin-order button
\* pressed next is not accepted: the fallback answers the restart notice and
\* the session stays cleared.  handle_start_order only ever runs in
\* waiting_for_order_start, which /start and the new-order button enter.
C16_ResetNeedsRestart ==
    [][ /\ \A u \in Users :
             ( /\ AfterReset(u)
               /\ last'.user = u
               /\ last'.msg = TextMsg(START_ORDER_BUTTON_TEXT)
               /\ ~last'.raised )
             => /\ fsm_state[u] = NoState
                /\ last'.handler = "fallback"
                /\ last'.replies = <<"restart_notice">>
                /\ fsm_state'[u] = NoState
                /\ data'[u] = EmptyData
        /\ last'.handler = "handle_start_order" =>
              fsm_state[last'.user] = "waiting_for_order_start" ]_vars

C16_Witness ==
    /\ variant = "db"
    /\ last.handler = "fallback"
    /\ conv_orders[last.user] = 1
    /\ last.pre_st = NoState
    /\ last.pre_keys = {}
    /\ last.msg = TextMsg(START_ORDER_BUTTON_TEXT)
    /\ last.replies = <<"restart_notice">>
    /\ Cleared(last.user)

\* C17: the row handle_extra_info inserts holds extra_info = "" when the
\* message text, trimmed, is "-", and the trimmed text itself otherwise.
C17_DashMeansNoExtraInfo ==
    (variant = "db" /\ last.ins # <<>>) =>
        LET stripped == strip(last.msg.text)
        IN  /\ stripped = <<"-">> => last.ins[1].extra_info = <<>>
            /\ stripped # <<"-">> => last.ins[1].extra_info = stripped

C17_Witness ==
    /\ variant = "db"
    /\ last.ins # <<>>
    /\ last.msg.text = <<SP, "-">>
    /\ last.ins[1].extra_info = <<>>

\* C18: the strict quantity policy.  When handle_quantity of
\* src/app/order/handler.py handles a text (no storage or transport call
\* raised, the session was not expired), a text that, trimmed, is a
\* positive whole number is stored as quantity and the state becomes
\* waiting_for_name; every other text is answered with the quantity
\* re-prompt and state and fields stay as they were.
C18_StrictQuantity ==
    [][ ( /\ variant = "app"
          /\ last'.handler = "handle_quantity"
          /\ ~last'.faulted
          /\ ~last'.expired )
        => LET u == last'.user
               text == strip(last'.msg.text)
               positive == /\ text # <<>>
                           /\ \A i \in 1..Len(text) : text[i] \in {"0", "5"}
                           /\ \E i \in 1..Len(text) : text[i] = "5"
           IN  IF positive
               THEN /\ last'.replies = <<"ask_name">>
                    /\ fsm_state'[u] = "waiting_for_name"
                    /\ Has(data'[u], "quantity") /\ data'[u]["quantity"] = text
               ELSE /\ last'.replies = <<"quantity_retry">>
                    /\ fsm_state'[u] = fsm_state[u]
                    /\ DOMAIN data'[u] \ {"last_activity_at"}
                          = DOMAIN data[u] \ {"last_activity_at"}
                    /\ \A k \in DOMAIN data[u] \ {"last_activity_at"} :
                          data'[u][k] = data[u][k] ]_vars

\* C19: after every handling the state of every session is no state or one
\* of waiting_for_order_start, waiting_for_contact, waiting_for_quantity,
\* waiting_for_name, waiting_for_address, waiting_for_phone and
\* waiting_for_extra_info; waiting_for_manual_phone is never entered.
C19_StateEnumerated ==
    \A u \in Users :
        fsm_state[u] \in { NoState, "waiting_for_order_start", "waiting_for_contact",
                           "waiting_for_quantity", "waiting_for_name",
                           "waiting_for_address", "waiting_for_phone",
                           "waiting_for_extra_info" }

C19_Witness ==
    /\ variant = "db"
    /\ last.handler = "handle_phone"
    /\ ~last.raised
    /\ Has(data[last.user], "manual_phone")
    /\ fsm_state[last.user] = "waiting_for_extra_info"

\* C20: a session holds only fields of steps it has passed: phone only
\* beyond waiting_for_contact, quantity only beyond waiting_for_quantity,
\* full_name only beyond waiting_for_name, address only beyond
\* waiting_for_address, manual_phone only beyond waiting_for_phone; an idle
\* session (no state, waiting_for_order_start) holds no order field.
C20_FieldsOfPassedStates ==
    \A u \in Users :
        LET r == Rank(fsm_state[u])
            d == data[u]
        IN  /\ Has(d, "phone") => r > 1
            /\ Has(d, "quantity") => r > 2
            /\ Has(d, "full_name") => r > 3
            /\ Has(d, "address") => r > 4
            /\ Has(d, "manual_phone") => r > 5
            /\ r = 0 => DOMAIN d \subseteq {"last_activity_at"}

\* the prompts that end a successful transition
TransitionPrompts ==
    { "greeting", "ask_contact", "ask_quantity", "ask_name", "ask_address",
      "ask_phone", "ask_extra" }

\* C21: in src/app/order/handler.py every successful transition (restart,
\* new order, begin order, accepted contact, quantity, name, address, phone)
\* leaves last_activity_at equal to the time of the message.
C21_TransitionRefreshesTimestamp ==
    ( /\ variant = "app"
      /\ last.user \in Users
      /\ ~last.raised
      /\ last.replies # <<>>
      /\ last.replies[Len(last.replies)] \in TransitionPrompts )
    => /\ Has(data[last.user], "last_activity_at")
       /\ data[last.user]["last_activity_at"] = FloatVal(last.at)
       /\ last.at = now

C21_Witness ==
    /\ variant = "app"
    /\ last.handler = "handle_address"
    /\ last.replies = <<"ask_phone">>
    /\ last.at > 0
    /\ last.pre_la = <<FloatVal(0)>>
    /\ data[last.user]["last_activity_at"] = FloatVal(last.at)

\* a zoned time as the wall clock of its zone shows it, in seconds
WallSeconds(dt) == (dt.instant \div TicksPerSecond) + dt.utcoffset

\* C22: the two zoned times of an order are one instant, the clock read once
\* at the submission: in the inserted row both carry that instant and their
\* wall clocks differ by the offset difference of the two zones, 7 hours;
\* the summary shows the same two times, to the minute, 420 minutes apart.
C22_OneInstantTwoZones ==
    (variant = "db" /\ last.handler = "handle_extra_info") =>
        /\ last.ins # <<>> =>
              LET r == last.ins[1]
              IN  /\ r.datetime_moscow.instant = last.at
                  /\ r.datetime_khabarovsk.instant = last.at
                  /\ WallSeconds(r.datetime_khabarovsk) - WallSeconds(r.datetime_moscow)
                        = 7 * 3600
        /\ last.sent # <<>> =>
              /\ last.sent[1].datetime_khabarovsk - last.sent[1].datetime_moscow = 7 * 60
              /\ last.sent[1].datetime_moscow
                    = WallSeconds(last.ins[1].datetime_moscow) \div 60

C22_Witness ==
    /\ variant = "db"
    /\ last.handler = "handle_extra_info"
    /\ last.at > 0
    /\ last.ins # <<>>
    /\ last.sent # <<>>
    /\ last.ins[1].datetime_moscow.instant = last.at
    /\ last.sent[1].datetime_khabarovsk - last.sent[1].datetime_moscow = 7 * 60

\* C23: the row insert_order persists holds for quantity, recipient name and
\* address exactly the values stored in the session, and never the
\* placeholder.
C23_PersistedValuesAreRaw ==
    [][ ( /\ variant = "db"
          /\ last'.handler = "handle_extra_info"
          /\ last'.ins # <<>> )
        => LET r == last'.ins[1]
               d == data[last'.user]
           IN  /\ r.quantity = Get(d, "quantity")
               /\ r.fio_receiver = Get(d, "full_name")
               /\ r.address = Get(d, "address")
               /\ DASH \notin {r.quantity, r.fio_receiver, r.address} ]_vars

\* C24: the summary of src/handler.py shows the contact phone and the typed
\* phone of the session, each as stored when it holds anything but
\* whitespace and as the placeholder when it is absent, empty or blank.
C24_BothPhonesShown ==
    [][ ( /\ variant = "db"
          /\ last'.handler = "handle_extra_info"
          /\ last'.sent # <<>> )
        => LET shown(x) == IF x = NoneVal \/ lstrip(x) = <<>> THEN DASH ELSE x
               d == data[last'.user]
           IN  /\ last'.sent[1].phone_text = shown(Get(d, "phone"))
               /\ last'.sent[1].manual_phone_text = shown(Get(d, "manual_phone")) ]_vars

\* a value that is absent, empty or whitespace only
Blank(x) == x = NoneVal \/ \A i \in 1..Len(x) : x[i] = SP

\* C25: display normalization is idempotent: formatting the formatted value
\* gives it again; and a value that is absent, empty or whitespace only is
\* formatted as the placeholder.
C25_NormalizationIdempotent ==
    /\ Len(rendered) >= 1 => (Blank(raw_value) => rendered[1].text = DASH)
    /\ Len(rendered) >= 2 => rendered[2].text = rendered[1].text

C25_Witness ==
    /\ raw_value = <<SP, "5", SP>>
    /\ Len(rendered) = 2
    /\ rendered[1] = [by |-> "field", text |-> <<"5">>]
    /\ rendered[2].text = <<"5">>

\* C26: after an exception left a handler, the error handler leaves the
\* session cleared (no state, no field) and the user told to restart, also
\* when sending that notice fails: the session is cleared in every case.
C26_ErrorHandlerClears ==
    last.raised =>
        /\ Cleared(last.user)
        /\ ~last.exc => last.replies # <<>> /\ last.replies[Len(last.replies)] = "restart_notice"

\* the states of the conversation in the order they are passed, and what the
\* user sends in each
HappyOrder ==
    << NoState, "waiting_for_order_start", "waiting_for_contact",
       "waiting_for_quantity", "waiting_for_name", "waiting_for_address",
       "waiting_for_phone", "waiting_for_extra_info" >>
HappyMessage(st, m) ==
    CASE st = NoState -> m.kind = "text" /\ m.text = StartCommand
      [] st = "waiting_for_order_start" ->
            m.kind = "text" /\ m.text = START_ORDER_BUTTON_TEXT
      [] st = "waiting_for_contact" ->
            m.kind = "contact" /\ m.user_id /\ m.phone_number # <<>>
      [] OTHER -> m.kind = "text" /\ m.text \notin GlobalTexts
                  /\ m.text # START_ORDER_BUTTON_TEXT

\* C27: the happy path of src/handler.py.  In a handling where no call fails,
\* the message of the conversation sent in its state (start without state,
\* begin order, a contact of the sender with a phone, then a text for
\* quantity, name, address, phone) moves the session to the next state of the
\* sequence, one state at a time; the extra information sent last, with
\* every field captured, persists exactly one order, dispatches exactly one
\* operator message, leaves the session cleared and is answered with the
\* confirmation only.
C27_HappyPath ==
    [][ ( /\ variant = "db"
          /\ last'.user \in ActiveUsers
          /\ ~last'.faulted
          /\ \E i \in 1..Len(HappyOrder) : fsm_state[last'.user] = HappyOrder[i]
          /\ HappyMessage(fsm_state[last'.user], last'.msg) )
        => LET u == last'.user
               i == CHOOSE j \in 1..Len(HappyOrder) : fsm_state[u] = HappyOrder[j]
           IN  IF i < Len(HappyOrder)
               THEN /\ fsm_state'[u] = HappyOrder[i + 1]
                    /\ Len(last'.replies) = 1
                    /\ last'.ins = <<>> /\ last'.sent = <<>>
                    /\ i > 2 => DOMAIN data'[u] = DOMAIN data[u] \cup OwnKeys(last'.handler)
               ELSE ( {"phone", "quantity", "full_name", "address", "manual_phone"}
                          \subseteq DOMAIN data[u] )
                    => /\ Len(last'.ins) = 1
                       /\ conv_orders'[u] = conv_orders[u] + 1
                       /\ Len(last'.sent) = 1
                       /\ fsm_state'[u] = NoState /\ data'[u] = EmptyData
                       /\ last'.replies = <<"confirmation">> ]_vars

\* the conversation was walked to its end: the order holds what each step
\* captured, it is the only order of the conversation, and the session is reset
C27_Witness ==
    /\ variant = "db"
    /\ last.handler = "handle_extra_info"
    /\ ~last.faulted
    /\ last.pre_keys = {"phone", "quantity", "full_name", "address", "manual_phone"}
    /\ Len(last.ins) = 1
    /\ last.ins[1].phone_contact = <<"+", "7">>
    /\ last.ins[1].quantity = <<"-">>
    /\ last.ins[1].fio_receiver = <<"-">>
    /\ last.ins[1].extra_info = <<>>
    /\ conv_orders[last.user] = 1
    /\ Len(last.sent) = 1
    /\ Cleared(last.user)
    /\ last.replies = <<"confirmation">>

\* C30: a configuration error is fatal at startup and never surfaces per
\* message.  With BOT_TOKEN missing, or CHANNEL_ID missing or no integer, the
\* process does not come to serve (it answers no health request and no
\* update request) and no update is handled; and no order is persisted by a
\* submission that then finds the operator destination missing or invalid.
C30_ConfigErrorFatalAtStartup ==
    /\ ~from_environment(process) =>
            /\ process.phase # "serving"
            /\ ~process.healthy /\ ~process.rejected
            /\ last = NoHandling
    /\ last.ins_called => _resolve_target_channel_id(process)

\* C28: sessions of distinct users are independent.  Whatever a handling of
\* a message of one user does (a reset, an idle expiry, a submission, a
\* failure), the state and the fields of every other user, last_activity_at
\* included, are what they were, in any order of the users' messages.
C28_SessionsIndependent ==
    [][ \A b \in Users :
            b # last'.user => fsm_state'[b] = fsm_state[b] /\ data'[b] = data[b] ]_vars

\* one user's session expired while the other is in the middle of an order
C28_Witness ==
    /\ variant = "app"
    /\ last.user = "u1"
    /\ last.expired /\ last.ret
    /\ Cleared("u1")
    /\ fsm_state["u2"] = "waiting_for_name"
    /\ Has(data["u2"], "quantity")
    /\ Has(data["u2"], "last_activity_at")

\* a later state of the conversation is held without a field that an
\* earlier step stores
LostUpdate == ~(CapturedBefore(fsm_state[RaceUser]) \subseteq DOMAIN data[RaceUser])

\* C29: the session is not updated atomically per user.  Two updates of one
\* user handled one after the other never leave a later state without the
\* field of an earlier step; handled with their storage calls interleaved
\* they can (the witness): a lost update needs, and is reached by, an overlap.
C29_LostUpdateOnlyByInterleaving ==
    LostUpdate => tasks.overlapped

\* /start's clear ran between update_data(phone) and
\* set_state(waiting_for_quantity) of the contact step, and its set_state
\* before that one: both handlings are over, the session waits for the
\* quantity and holds no phone
C29_Witness ==
    /\ Len(tasks.run) = 2
    /\ tasks.run[1].h = "handle_contact" /\ Finished(tasks.run[1])
    /\ tasks.run[2].h = "handle_start" /\ Finished(tasks.run[2])
    /\ fsm_state[RaceUser] = "waiting_for_quantity"
    /\ ~Has(data[RaceUser], "phone")

\* C31: an idle expiry discards the message also when the idle notice cannot
\* be delivered: once the check has cleared a session idle for 540 s or more
\* and sending the notice raised, the handler stores no field of the message
\* and advances no state: the session stays cleared.
C31_ExpiryDiscardsWithoutNotice ==
    ( /\ variant = "app"
      /\ last.handler \in IdleChecked
      /\ last.expired /\ last.swallowed )
    => /\ fsm_state[last.user] = NoState
       /\ data[last.user] = EmptyData

\* C32: the phone of the shared contact is kept until submission.  A phone
\* accepted in waiting_for_phone leaves the stored contact phone as it was
\* and is stored under a key of its own.
C32_ContactPhoneKept ==
    [][ ( /\ last'.handler = "handle_phone"
          /\ last'.replies = <<"ask_extra">>
          /\ ~last'.raised /\ ~last'.expired /\ ~last'.swallowed
          /\ Has(data[last'.user], "phone") )
        => LET u == last'.user
           IN  /\ Has(data'[u], "phone")
               /\ data'[u]["phone"] = data[u]["phone"]
               /\ \E k \in DOMAIN data'[u] \ {"phone", "last_activity_at"} :
                     /\ k \notin DOMAIN data[u]
                     /\ data'[u][k] = strip(last'.msg.text) ]_vars

\* C33: an input rejected with a re-prompt (an invalid quantity in
\* waiting_for_quantity, a contact without user id in waiting_for_contact)
\* leaves the whole session as it was, last_activity_at included.
C33_RejectedInputLeavesSession ==
    [][ ( /\ variant = "app"
          /\ last'.handler \in {"handle_contact", "handle_quantity"}
          /\ last'.replies \in { <<"contact_retry">>, <<"quantity_retry">> }
          /\ ~last'.raised /\ ~last'.expired /\ ~last'.swallowed )
        => /\ fsm_state'[last'.user] = fsm_state[last'.user]
           /\ data'[last'.user] = data[last'.user] ]_vars

\* the idle notice is among the replies of the handling r
IdleNoticed(r) == \E i \in 1..Len(r.replies) : r.replies[i] = "idle_notice"

\* C34: an idle expiry removes the stored timestamp with the session, so
\* the message of the same user handled next, however long after, is not
\* answered with the idle notice: no two consecutive handlings of one user
\* both send it.
C34_NoTwoIdleNoticesInARow ==
    [][ ( /\ now' = now
          /\ last.user \in Users
          /\ last'.user = last.user
          /\ IdleNoticed(last) )
        => /\ ~IdleNoticed(last')
           /\ ~last'.expired ]_vars

\* the new-order button pressed two thresholds after the start, on the
\* session an expiry had cleared: it restarts the conversation
C34_Witness ==
    /\ variant = "app"
    /\ last.handler = "handle_new_order"
    /\ last.at = 2 * ThresholdTicks
    /\ last.pre_st = NoState /\ last.pre_la = <<>>
    /\ last.replies = <<"greeting">>
    /\ fsm_state[last.user] = "waiting_for_order_start"

\* the handler registered for free text in state st
StateHandler(st) ==
    CASE st = "waiting_for_quantity" -> "handle_quantity"
      [] st = "waiting_for_name" -> "handle_name"
      [] st = "waiting_for_address" -> "handle_address"
      [] st = "waiting_for_phone" -> "handle_phone"
      [] st = "waiting_for_extra_info" -> "handle_extra_info"
      [] OTHER -> ""

\* C35: routing precedence of the new-order label.  In waiting_for_quantity,
\* waiting_for_name, waiting_for_address, waiting_for_phone and
\* waiting_for_extra_info the label is given to the handler of the state,
\* which takes it for its field value (src/handler.py stores it and moves on,
\* or submits it as the extra information) and does not restart; in the
\* states without free-text handler it is given to handle_new_order, which
\* restarts the conversation.
C35_NewOrderLabelPrecedence ==
    ( /\ last.user \in Users
      /\ last.msg.kind = "text"
      /\ last.msg.text = NEW_ORDER_BUTTON_TEXT )
    => LET u == last.user
       IN  IF StateHandler(last.pre_st) # ""
           THEN /\ last.handler = StateHandler(last.pre_st)
                /\ \A i \in 1..Len(last.replies) : last.replies[i] # "greeting"
                /\ (variant = "db" /\ ~last.faulted) =>
                      IF last.handler = "handle_extra_info"
                      THEN /\ Len(last.ins) = 1
                           /\ last.ins[1].extra_info = NEW_ORDER_BUTTON_TEXT
                      ELSE /\ \E k \in OwnKeys(last.handler) :
                                 Has(data[u], k) /\ data[u][k] = NEW_ORDER_BUTTON_TEXT
                           /\ Rank(fsm_state[u]) = Rank(last.pre_st) + 1
           ELSE /\ last.handler = "handle_new_order"
                /\ (~last.faulted /\ ~last.expired) =>
                      /\ fsm_state[u] = "waiting_for_order_start"
                      /\ last.replies = <<"greeting">>

C35_Witness ==
    /\ variant = "db"
    /\ last.handler = "handle_name"
    /\ last.msg.text = NEW_ORDER_BUTTON_TEXT
    /\ ~last.faulted
    /\ data[last.user]["full_name"] = NEW_ORDER_BUTTON_TEXT
    /\ fsm_state[last.user] = "waiting_for_address"

\* C36: a text equal to the FAQ label is handled by handle_faq in every
\* state of the session; when no call fails it is answered with the FAQ text
\* only and the session (state, collected fields, last_activity_at) is what
\* it was: nothing is stored, the session is not expired however long it was
\* idle, and the fallback does not reset it.
C36_FaqLeavesSession ==
    [][ ( /\ last'.user \in Users
          /\ last'.msg.kind = "text"
          /\ last'.msg.text = FAQ_BUTTON_TEXT )
        => /\ last'.handler = "handle_faq"
           /\ ~last'.expired /\ ~last'.swallowed
           /\ ~last'.faulted =>
                 /\ last'.replies = <<"faq">>
                 /\ fsm_state'[last'.user] = fsm_state[last'.user]
                 /\ data'[last'.user] = data[last'.user] ]_vars

\* the FAQ asked in the middle of an order a full threshold after the last
\* accepted input
C36_Witness ==
    /\ variant = "app"
    /\ last.handler = "handle_faq"
    /\ last.pre_st = "waiting_for_name"
    /\ HadTimestamp
    /\ IdleTicks >= ThresholdTicks
    /\ last.replies = <<"faq">>
    /\ fsm_state[last.user] = "waiting_for_name"
    /\ Has(data[last.user], "quantity")
    /\ data[last.user]["last_activity_at"] = last.pre_la[1]

\* C37: two extra-info messages of one user handled concurrently in
\* waiting_for_extra_info, interleaved at the insert, the dispatch and the
\* clear, persist at most one order and dispatch at most one operator summary.
C37_OneOrderPerConversation ==
    ( /\ Len(tasks.run) = 2
      /\ \A i \in 1..2 : tasks.run[i].h = "handle_extra_info" )
    => /\ conv_orders[RaceUser] <= 1
       /\ tasks.sent <= 1

====
